---- MODULE Spec2Model ----
(***************************************************************************)
(* A model of vms.py, a command-line front-end to libvirt.                 *)
(*                                                                         *)
(* One behaviour of Spec is one invocation of the tool: cli opens the      *)
(* connection, one subcommand iterates over the domains reported by the    *)
(* hypervisor, and the click context closes the connection when the        *)
(* command returns or raises.  Every libvirt call is recorded in `calls`   *)
(* with its outcome; an outcome is chosen nondeterministically, because    *)
(* the hypervisor may fail any request.  Every console.print is recorded   *)
(* in `console`.                                                           *)
(*                                                                         *)
(* Strings that the program inspects (domain names, snapshot names,        *)
(* patterns) are sequences of one-character strings.                       *)
(***************************************************************************)
EXTENDS Integers, Sequences, FiniteSets, TLC

VARIABLES
    pc,          \* position of the invocation in the program
    cmd,         \* the subcommand invoked (click dispatch)
    patterns,    \* the PATTERNS argument
    opts,        \* the other arguments: force, format, name
    hv,          \* what the hypervisor holds: the domains, in the order it lists them
    cnx,         \* the connection handle: "none", "open", "closed"
    domains,     \* the list the running loop iterates over
    i,           \* index in `domains` of the domain being processed
    disks,       \* delete: the disks of the descriptor being walked
    k,           \* delete: index of the next disk / of the next volume to delete
    volumes_to_delete, \* delete: the deletion set of the current domain
    result,      \* what the command has accumulated for its output
    calls,       \* every libvirt call issued, in order, with its outcome
    console,     \* every message printed, in order
    raised,      \* TRUE once a libvirtError has left the subcommand uncaught
    m_name,      \* matcher harness: the name given to matches
    m_patterns,  \* matcher harness: the patterns given to matches
    m_out        \* matcher harness: the values returned

vars == << pc, cmd, patterns, opts, hv, cnx, domains, i, disks, k,
           volumes_to_delete, result, calls, console, raised,
           m_name, m_patterns, m_out >>

cmdVars == << pc, cmd, patterns, opts, hv, cnx, domains, i, disks, k,
              volumes_to_delete, result, calls, console, raised >>

matchVars == << m_name, m_patterns, m_out >>

(***************************************************************************)
(* Bounds of the model.                                                    *)
(***************************************************************************)
\* the longest name given to the matcher harness
MaxNameLen == 2
\* the longest pattern list given to the matcher harness
MaxPatterns == 2
\* the number of disks the descriptors read in one invocation hold together
MaxDisks == 2

(***************************************************************************)
(* Strings.                                                                *)
(***************************************************************************)
\* ord(): the code point of the characters the model uses
CodePoint ==
    ( "$" :> 36 @@ "1" :> 49 @@ "2" :> 50 @@ "^" :> 94 @@ "a" :> 97 @@
      "b" :> 98 @@ "d" :> 100 @@ "e" :> 101 @@ "n" :> 110 @@ "w" :> 119 )

\* str.__lt__: lexicographic order by code point
RECURSIVE StrLess(_, _)
StrLess(s, t) ==
    IF t = << >> THEN FALSE
    ELSE IF s = << >> THEN TRUE
    ELSE IF CodePoint[Head(s)] # CodePoint[Head(t)]
         THEN CodePoint[Head(s)] < CodePoint[Head(t)]
         ELSE StrLess(Tail(s), Tail(t))

(***************************************************************************)
(* The pattern matcher.  re.search is modelled on the patterns made of     *)
(* literal characters, an optional leading ^ and an optional trailing $:   *)
(* the engine tries every start position from the left and, at a position, *)
(* consumes the pattern one element at a time.                             *)
(***************************************************************************)
\* the pattern matches the text at its very beginning
RECURSIVE MatchHere(_, _)
MatchHere(p, text) ==
    IF p = << >> THEN TRUE
    ELSE IF p = << "$" >> THEN text = << >>
    ELSE IF text # << >> /\ Head(p) = Head(text)
         THEN MatchHere(Tail(p), Tail(text))
         ELSE FALSE

\* the pattern, without a leading ^, matches at some position from `pos` on
RECURSIVE ScanFrom(_, _, _)
ScanFrom(p, text, pos) ==
    IF pos > Len(text) + 1 THEN FALSE
    ELSE IF MatchHere(p, SubSeq(text, pos, Len(text))) THEN TRUE
    ELSE ScanFrom(p, text, pos + 1)

\* re.search(p, name) is not None
re_search(p, text) ==
    IF p # << >> /\ Head(p) = "^" THEN MatchHere(Tail(p), text)
    ELSE ScanFrom(p, text, 1)

\* any(): a left fold of `or` over the list
RECURSIVE any(_)
any(bs) == IF bs = << >> THEN FALSE ELSE Head(bs) \/ any(Tail(bs))

\* all(): a left fold of `and` over the list
RECURSIVE all(_)
all(bs) == IF bs = << >> THEN TRUE ELSE Head(bs) /\ all(Tail(bs))

\* matches with all() in the place of any()
matches_all(name, pats) ==
    all([j \in 1..Len(pats) |-> re_search(pats[j], name)]) \/ pats = << >>

\* matches(name, patterns)
matches(name, pats) ==
    any([j \in 1..Len(pats) |-> re_search(pats[j], name)]) \/ pats = << >>


(***************************************************************************)
(* The matcher harness: matches applied to bounded inputs.                 *)
(***************************************************************************)
\* the sequences over S of length at most n
SeqsUpTo(S, n) == UNION { [1..m -> S] : m \in 0..n }

MatchNames == SeqsUpTo({"a", "b"}, MaxNameLen)

PatternLiterals == { << >>, << "a" >>, << "b" >>, << "a", "b" >> }

MatchPatterns ==
    { pre \o lit \o post :
        pre \in { << >>, << "^" >> }, lit \in PatternLiterals,
        post \in { << >>, << "$" >> } }

\* the rearrangements of a sequence
Rearrangements(s) ==
    { [j \in 1..Len(s) |-> s[f[j]]] : f \in Permutations(1..Len(s)) }

\* the values of the command's variables while the harness runs
CmdIdle ==
    /\ pc = "idle" /\ cmd = "none" /\ patterns = << >>
    /\ opts = [force |-> FALSE, format |-> "table", name |-> << >>]
    /\ hv = << >> /\ cnx = "none" /\ domains = << >> /\ i = 0
    /\ disks = << >> /\ k = 0 /\ volumes_to_delete = << >>
    /\ result = << >> /\ calls = << >> /\ console = << >> /\ raised = FALSE

InitMatch ==
    /\ CmdIdle
    /\ m_name \in MatchNames
    /\ m_patterns \in SeqsUpTo(MatchPatterns, MaxPatterns)
    /\ m_out = << >>

\* matches(name, patterns), called on the inputs
MatchCall ==
    /\ Len(m_out) = 0
    /\ m_out' = << matches(m_name, m_patterns) >>
    /\ UNCHANGED << m_name, m_patterns >>
    /\ UNCHANGED cmdVars

\* matches(name, q), called on the same patterns in another order
MatchCallRearranged ==
    /\ Len(m_out) = 1
    /\ \E q \in Rearrangements(m_patterns) :
          m_out' = Append(m_out, matches(m_name, q))
    /\ UNCHANGED << m_name, m_patterns >>
    /\ UNCHANGED cmdVars

NextMatch == MatchCall \/ MatchCallRearranged

SpecMatch == InitMatch /\ [][NextMatch]_vars


(***************************************************************************)
(* The hypervisor and the command line.                                    *)
(***************************************************************************)
web1 == << "w", "e", "b", "1" >>
db1 == << "d", "b", "1" >>

DomainNames == { web1, db1 }

\* the domain lists the hypervisor may report: any domains, in any order
Inventories ==
    { s \in SeqsUpTo(DomainNames, Cardinality(DomainNames)) :
        \A a, b \in 1..Len(s) : a # b => s[a] # s[b] }

\* the pattern lists given on the command line
PatternLists ==
    { << >>,
      << << "e", "b" >> >>,
      << << "^", "d" >>, << "2", "$" >> >> }

\* libvirt.VIR_DOMAIN_RUNNING and one of the other states
DomainStates == { "running", "shutoff" }

\* SOURCE_ATTRIBUTES
SOURCE_ATTRIBUTES == { "file", "dir", "name", "dev", "volume" }

\* the absent value of ElementTree's get() and find()
None == "None"

\* the disk elements a descriptor may hold: target is "absent" without a
\* target element, None for a target element without dev; source maps the
\* attributes of the source element, when there is one, to their values
DiskKinds ==
    { [target |-> "absent", has_source |-> TRUE, source |-> ("file" :> "/a")],
      [target |-> None, has_source |-> TRUE, source |-> ("file" :> "/a")],
      [target |-> "vda", has_source |-> FALSE, source |-> << >>],
      [target |-> "vda", has_source |-> TRUE, source |-> ("pool" :> "p")],
      [target |-> "vda", has_source |-> TRUE,
       source |-> ("file" :> "/a" @@ "dev" :> "/b")],
      [target |-> "vda", has_source |-> TRUE,
       source |-> ("pool" :> "p" @@ "volume" :> "v" @@ "name" :> "n")],
      [target |-> "vda", has_source |-> TRUE, source |-> ("file" :> "/a")],
      [target |-> "vdb", has_source |-> TRUE,
       source |-> ("pool" :> "p" @@ "volume" :> "v")] }

\* a libvirt call, as recorded
Call(op, dom, arg, ok) == [op |-> op, dom |-> dom, arg |-> arg, ok |-> ok]

\* a console.print, as recorded
Msg(msg, dom, about) == [msg |-> msg, dom |-> dom, about |-> about]

\* the number of disks in the descriptors read so far
RECURSIVE DisksRead(_)
DisksRead(cs) ==
    IF cs = << >> THEN 0
    ELSE (IF Head(cs).op = "XMLDesc" /\ Head(cs).ok THEN Len(Head(cs).arg) ELSE 0)
         + DisksRead(Tail(cs))

\* the command lines: subcommand and options
Invocations ==
    [cmd : { "list" }, force : { FALSE }, format : { "table", "json" },
     name : { << >> }]
    \cup [cmd : { "stop" }, force : BOOLEAN, format : { "table" }, name : { << >> }]
    \cup [cmd : { "start", "delete", "synctime", "addresses", "snapshot_list" },
          force : { FALSE }, format : { "table" }, name : { << >> }]
    \cup [cmd : { "snapshot_create", "snapshot_delete", "snapshot_revert" },
          force : { FALSE }, format : { "table" },
          name : { << "n" >>, << "n", "1" >> }]

Init ==
    /\ pc = "cli"
    /\ \E inv \in Invocations :
          /\ cmd = inv.cmd
          /\ opts = [force |-> inv.force, format |-> inv.format, name |-> inv.name]
    /\ patterns \in PatternLists
    /\ hv \in Inventories
    /\ cnx = "none" /\ domains = << >> /\ i = 0
    /\ disks = << >> /\ k = 0 /\ volumes_to_delete = << >>
    /\ result = << >> /\ calls = << >> /\ console = << >> /\ raised = FALSE
    /\ m_name = << >> /\ m_patterns = << >> /\ m_out = << >>

\* a libvirtError leaves the subcommand: the click context unwinds
Raise(cs) ==
    /\ calls' = cs
    /\ raised' = TRUE
    /\ pc' = "teardown"

(***************************************************************************)
(* cli and the connection scope.                                           *)
(***************************************************************************)
\* cli: ctx.with_resource(connect_libvirt(connect)) runs the context manager
\* up to its yield, then click invokes the subcommand
cli ==
    /\ pc = "cli"
    /\ \E ok \in BOOLEAN :
          /\ calls' = Append(calls, Call("open", << >>, None, ok))
          /\ cnx' = IF ok THEN "open" ELSE "none"
          /\ pc' = IF ok THEN cmd ELSE "exit"
          /\ raised' = ~ok
    /\ UNCHANGED << cmd, patterns, opts, hv, domains, i, disks, k,
                    volumes_to_delete, result, console >>
    /\ UNCHANGED matchVars

\* connect_libvirt without try/finally: close only when the body returned
connect_libvirt_exit_no_finally ==
    /\ pc = "teardown"
    /\ calls' = IF raised THEN calls ELSE Append(calls, Call("close", << >>, None, TRUE))
    /\ cnx' = IF raised THEN cnx ELSE "closed"
    /\ pc' = "exit"
    /\ UNCHANGED << cmd, patterns, opts, hv, domains, i, disks, k,
                    volumes_to_delete, result, console, raised >>
    /\ UNCHANGED matchVars

\* the click context is torn down when the command returns or raises: the
\* context manager resumes after its yield, in the finally clause
connect_libvirt_exit ==
    /\ pc = "teardown"
    /\ calls' = Append(calls, Call("close", << >>, None, TRUE))
    /\ cnx' = "closed"
    /\ pc' = "exit"
    /\ UNCHANGED << cmd, patterns, opts, hv, domains, i, disks, k,
                    volumes_to_delete, result, console, raised >>
    /\ UNCHANGED matchVars

(***************************************************************************)
(* delete                                                                  *)
(***************************************************************************)
\* line 166 without its condition: every listed domain is kept
Selected_all(names, pats) == names

\* the names of a domain list that the patterns select, in the list's order
Selected(names, pats) == SelectSeq(names, LAMBDA n : matches(n, pats))

\* delete, line 166: list the domains and keep the matching ones
delete_list ==
    /\ pc = "delete"
    /\ \/ /\ calls' = Append(calls, Call("listAllDomains", << >>, hv, TRUE))
          /\ domains' = Selected(hv, patterns)
          /\ i' = 1
          /\ pc' = "delete_dom"
          /\ UNCHANGED raised
       \/ /\ Raise(Append(calls, Call("listAllDomains", << >>, None, FALSE)))
          /\ UNCHANGED << domains, i >>
    /\ UNCHANGED << cmd, patterns, opts, hv, cnx, disks, k,
                    volumes_to_delete, result, console >>
    /\ UNCHANGED matchVars

\* delete, lines 169-173: the loop head; a running domain is destroyed
delete_dom ==
    /\ pc = "delete_dom"
    /\ IF i > Len(domains)
       THEN /\ pc' = "teardown"
            /\ UNCHANGED << calls, console, raised >>
       ELSE LET name == domains[i] IN
            \/ /\ Raise(Append(calls, Call("state", name, None, FALSE)))
               /\ UNCHANGED console
            \/ /\ calls' = Append(calls, Call("state", name, "shutoff", TRUE))
               /\ pc' = "delete_xml"
               /\ UNCHANGED << console, raised >>
            \/ /\ calls' = calls \o << Call("state", name, "running", TRUE),
                                       Call("destroy", name, None, TRUE) >>
               /\ console' = Append(console, Msg("Stopped", name, None))
               /\ pc' = "delete_xml"
               /\ UNCHANGED raised
            \/ /\ Raise(calls \o << Call("state", name, "running", TRUE),
                                    Call("destroy", name, None, FALSE) >>)
               /\ UNCHANGED console
    /\ UNCHANGED << cmd, patterns, opts, hv, cnx, domains, i, disks, k,
                    volumes_to_delete, result >>
    /\ UNCHANGED matchVars

\* delete, lines 175-176: an empty deletion set, and the descriptor
delete_xml ==
    /\ pc = "delete_xml"
    /\ LET name == domains[i] IN
       \/ /\ \E ds \in SeqsUpTo(DiskKinds, MaxDisks - DisksRead(calls)) :
                /\ calls' = Append(calls, Call("XMLDesc", name, ds, TRUE))
                /\ disks' = ds
          /\ volumes_to_delete' = << >>
          /\ k' = 1
          /\ pc' = "delete_disk"
          /\ UNCHANGED raised
       \/ /\ Raise(Append(calls, Call("XMLDesc", name, << >>, FALSE)))
          /\ volumes_to_delete' = << >>
          /\ UNCHANGED << disks, k >>
    /\ UNCHANGED << cmd, patterns, opts, hv, cnx, domains, i, result, console >>
    /\ UNCHANGED matchVars

\* a lookup of the volume behind disk number n of a domain
Lookup(n, pool, source) == [disk |-> n, pool |-> pool, source |-> source]

\* a storage volume handle
Volume(pool, source) == [pool |-> pool, key |-> source]

\* lines 187-191 with the count of identifying attributes not checked
Identified_any(d) ==
    d.has_source /\ SOURCE_ATTRIBUTES \cap DOMAIN d.source # { }

\* lines 187-191: the disk has a source with exactly one identifying attribute
Identified(d) ==
    d.has_source /\ Cardinality(SOURCE_ATTRIBUTES \cap DOMAIN d.source) = 1

\* delete, lines 177-233: one iteration of the loop over the disks
delete_disk ==
    /\ pc = "delete_disk"
    /\ IF k > Len(disks)
       THEN /\ pc' = "delete_undefine"
            /\ UNCHANGED << k, volumes_to_delete, calls, console >>
       ELSE LET name == domains[i]
                d == disks[k]
                target == d.target
                attr == SOURCE_ATTRIBUTES \cap DOMAIN d.source
                source == d.source[CHOOSE a \in attr : TRUE]
                pool == IF "pool" \in DOMAIN d.source THEN d.source["pool"] ELSE None
                found == [volume |-> Volume(pool, source), target |-> target,
                          source |-> source]
            IN  /\ pc' = "delete_disk"
                /\ k' = k + 1
                /\ IF d.target = "absent"
                   THEN /\ console' = Append(console, Msg("Missing target", name, k))
                        /\ UNCHANGED << volumes_to_delete, calls >>
                   ELSE IF ~Identified(d)
                   THEN UNCHANGED << volumes_to_delete, calls, console >>
                   ELSE IF pool # None
                   THEN \/ /\ calls' = Append(calls, Call("storagePoolLookupByName",
                                                 name, Lookup(k, pool, source), FALSE))
                           /\ console' = Append(console,
                                                Msg("Storage pool not found", name, k))
                           /\ UNCHANGED volumes_to_delete
                        \/ /\ calls' = calls \o
                                << Call("storagePoolLookupByName", name,
                                        Lookup(k, pool, source), TRUE),
                                   Call("storageVolLookupByName", name,
                                        Lookup(k, pool, source), FALSE) >>
                           /\ console' = Append(console,
                                                Msg("Storage volume not found", name, k))
                           /\ UNCHANGED volumes_to_delete
                        \/ /\ calls' = calls \o
                                << Call("storagePoolLookupByName", name,
                                        Lookup(k, pool, source), TRUE),
                                   Call("storageVolLookupByName", name,
                                        Lookup(k, pool, source), TRUE) >>
                           /\ volumes_to_delete' = Append(volumes_to_delete, found)
                           /\ UNCHANGED console
                   ELSE \/ /\ calls' = Append(calls, Call("storageVolLookupByPath",
                                                 name, Lookup(k, pool, source), FALSE))
                           /\ console' = Append(console,
                                                Msg("Storage volume not managed", name, k))
                           /\ UNCHANGED volumes_to_delete
                        \/ /\ calls' = Append(calls, Call("storageVolLookupByPath",
                                                 name, Lookup(k, pool, source), TRUE))
                           /\ volumes_to_delete' = Append(volumes_to_delete, found)
                           /\ UNCHANGED console
    /\ UNCHANGED << cmd, patterns, opts, hv, cnx, domains, i, disks, result, raised >>
    /\ UNCHANGED matchVars

\* lines 243-247 without the continue: the volumes are deleted all the same
delete_undefine_no_continue ==
    /\ pc = "delete_undefine"
    /\ LET name == domains[i] IN
       \/ /\ calls' = Append(calls, Call("undefineFlags", name, None, TRUE))
          /\ console' = Append(console, Msg("Deleted", name, None))
       \/ /\ calls' = Append(calls, Call("undefineFlags", name, None, FALSE))
          /\ console' = Append(console, Msg("Failed to delete", name, None))
    /\ k' = 1
    /\ pc' = "delete_volume"
    /\ UNCHANGED i
    /\ UNCHANGED << cmd, patterns, opts, hv, cnx, domains, disks,
                    volumes_to_delete, result, raised >>
    /\ UNCHANGED matchVars

\* lines 235-247 with the forced stop moved here, after the disks: a domain
\* found running is destroyed right before it is undefined
delete_undefine_stop_late ==
    /\ pc = "delete_undefine"
    /\ LET name == domains[i]
           running == \E j \in 1..Len(calls) :
                         calls[j] = Call("state", name, "running", TRUE)
           stopped == IF running
                      THEN Append(calls, Call("destroy", name, None, TRUE))
                      ELSE calls
       IN  \/ /\ calls' = Append(stopped, Call("undefineFlags", name, None, TRUE))
              /\ console' = Append(console, Msg("Deleted", name, None))
              /\ k' = 1
              /\ pc' = "delete_volume"
              /\ UNCHANGED i
           \/ /\ calls' = Append(stopped, Call("undefineFlags", name, None, FALSE))
              /\ console' = Append(console, Msg("Failed to delete", name, None))
              /\ i' = i + 1
              /\ pc' = "delete_dom"
              /\ UNCHANGED k
    /\ UNCHANGED << cmd, patterns, opts, hv, cnx, domains, disks,
                    volumes_to_delete, result, raised >>
    /\ UNCHANGED matchVars

\* delete, lines 235-247: undefine; a failure moves on to the next domain
delete_undefine ==
    /\ pc = "delete_undefine"
    /\ LET name == domains[i] IN
       \/ /\ calls' = Append(calls, Call("undefineFlags", name, None, TRUE))
          /\ console' = Append(console, Msg("Deleted", name, None))
          /\ k' = 1
          /\ pc' = "delete_volume"
          /\ UNCHANGED i
       \/ /\ calls' = Append(calls, Call("undefineFlags", name, None, FALSE))
          /\ console' = Append(console, Msg("Failed to delete", name, None))
          /\ i' = i + 1
          /\ pc' = "delete_dom"
          /\ UNCHANGED k
    /\ UNCHANGED << cmd, patterns, opts, hv, cnx, domains, disks,
                    volumes_to_delete, result, raised >>
    /\ UNCHANGED matchVars

\* lines 249-260 with the try around the loop: a failure ends the loop
delete_volume_try_outside ==
    /\ pc = "delete_volume"
    /\ IF k > Len(volumes_to_delete)
       THEN /\ i' = i + 1
            /\ pc' = "delete_dom"
            /\ UNCHANGED << k, calls, console >>
       ELSE LET name == domains[i]
                volume == volumes_to_delete[k]
            IN  \/ /\ calls' = Append(calls, Call("delete", name, volume, TRUE))
                   /\ console' = Append(console, Msg("Volume deleted", name, k))
                   /\ k' = k + 1
                   /\ UNCHANGED << i, pc >>
                \/ /\ calls' = Append(calls, Call("delete", name, volume, FALSE))
                   /\ console' = Append(console,
                                        Msg("Failed to delete volume", name, k))
                   /\ i' = i + 1
                   /\ pc' = "delete_dom"
                   /\ UNCHANGED k
    /\ UNCHANGED << cmd, patterns, opts, hv, cnx, domains, disks,
                    volumes_to_delete, result, raised >>
    /\ UNCHANGED matchVars

\* delete, lines 249-260: one iteration of the loop over the deletion set
delete_volume ==
    /\ pc = "delete_volume"
    /\ IF k > Len(volumes_to_delete)
       THEN /\ i' = i + 1
            /\ pc' = "delete_dom"
            /\ UNCHANGED << k, calls, console >>
       ELSE LET name == domains[i]
                volume == volumes_to_delete[k]
            IN  /\ \/ /\ calls' = Append(calls, Call("delete", name, volume, TRUE))
                      /\ console' = Append(console, Msg("Volume deleted", name, k))
                   \/ /\ calls' = Append(calls, Call("delete", name, volume, FALSE))
                      /\ console' = Append(console,
                                           Msg("Failed to delete volume", name, k))
                /\ k' = k + 1
                /\ UNCHANGED << i, pc >>
    /\ UNCHANGED << cmd, patterns, opts, hv, cnx, domains, disks,
                    volumes_to_delete, result, raised >>
    /\ UNCHANGED matchVars

(***************************************************************************)
(* The other subcommands.  Each loop iteration is one step.                *)
(***************************************************************************)
inputs == << cmd, patterns, opts, hv >>

deleteLocals == << disks, k, volumes_to_delete >>

\* ctx.obj.listAllDomains() at the head of a loop over all the domains
ListAll(next) ==
    /\ \/ /\ calls' = Append(calls, Call("listAllDomains", << >>, hv, TRUE))
          /\ domains' = hv
          /\ i' = 1
          /\ pc' = next
          /\ UNCHANGED raised
       \/ /\ Raise(Append(calls, Call("listAllDomains", << >>, None, FALSE)))
          /\ UNCHANGED << domains, i >>
    /\ UNCHANGED << cnx, result, console >>
    /\ UNCHANGED << inputs, deleteLocals, matchVars >>

\* the end of a loop over `domains`
LoopDone(next) ==
    /\ i > Len(domains)
    /\ pc' = next
    /\ UNCHANGED << cnx, domains, i, result, calls, console, raised >>
    /\ UNCHANGED << inputs, deleteLocals, matchVars >>

\* STATES[state]["label"]
StateLabel(st) == IF st = "running" THEN "running" ELSE "stopped"

\* sorted(rows, key=lambda d: d[0]): a stable insertion of each row in turn
RECURSIVE InsertByName(_, _)
InsertByName(row, sorted) ==
    IF sorted = << >> THEN << row >>
    ELSE IF StrLess(row[1], Head(sorted)[1]) THEN << row >> \o sorted
    ELSE << Head(sorted) >> \o InsertByName(row, Tail(sorted))

RECURSIVE SortByName(_)
SortByName(rows) ==
    IF rows = << >> THEN << >>
    ELSE InsertByName(rows[Len(rows)], SortByName(SubSeq(rows, 1, Len(rows) - 1)))

\* vms_list, line 83
list_list ==
    /\ pc = "list"
    /\ ListAll("list_dom")

\* vms_list, lines 69-85: one element of the comprehension
list_dom ==
    /\ pc = "list_dom"
    /\ i <= Len(domains)
    /\ LET name == domains[i] IN
       IF ~matches(name, patterns)
       THEN /\ i' = i + 1
            /\ UNCHANGED << pc, result, calls, raised >>
       ELSE \/ /\ Raise(Append(calls, Call("state", name, None, FALSE)))
               /\ UNCHANGED << i, result >>
            \/ \E st \in DomainStates :
                  /\ Raise(calls \o << Call("state", name, st, TRUE),
                                       Call("state", name, None, FALSE) >>)
                  /\ UNCHANGED << i, result >>
            \/ \E st \in DomainStates :
                  /\ calls' = calls \o << Call("state", name, st, TRUE),
                                          Call("state", name, "shutoff", TRUE) >>
                  /\ result' = Append(result, << name, StateLabel(st), None >>)
                  /\ i' = i + 1
                  /\ UNCHANGED << pc, raised >>
            \/ \E st \in DomainStates, ok \in BOOLEAN :
                  /\ calls' = calls \o << Call("state", name, st, TRUE),
                                          Call("state", name, "running", TRUE),
                                          Call("getTime", name, None, ok) >>
                  /\ result' = Append(result, << name, StateLabel(st),
                                                 IF ok THEN "time" ELSE None >>)
                  /\ i' = i + 1
                  /\ UNCHANGED << pc, raised >>
    /\ UNCHANGED << cnx, domains, console >>
    /\ UNCHANGED << inputs, deleteLocals, matchVars >>

\* vms_list, lines 86-99: the rows are printed, as JSON or as a table
list_print ==
    /\ pc = "list_dom"
    /\ i > Len(domains)
    /\ console' = Append(console,
                         IF opts.format = "json"
                         THEN Msg("json", << >>, result)
                         ELSE Msg("table", << >>, SortByName(result)))
    /\ pc' = "teardown"
    /\ UNCHANGED << cnx, domains, i, result, calls, raised >>
    /\ UNCHANGED << inputs, deleteLocals, matchVars >>

vms_list == list_list \/ list_dom \/ list_print

\* start, line 113
start_list ==
    /\ pc = "start"
    /\ ListAll("start_dom")

\* start and stop, lines 113-124 and 139-154: one iteration.  The state is
\* read first; the call is made when the state is `wanted` and the name matches
StateLoop(here, wanted, op, okMsg, failMsg) ==
    /\ pc = here
    /\ i <= Len(domains)
    /\ LET name == domains[i] IN
       \/ /\ Raise(Append(calls, Call("state", name, None, FALSE)))
          /\ UNCHANGED << i, console >>
       \/ \E st \in DomainStates :
             /\ i' = i + 1
             /\ UNCHANGED << pc, raised >>
             /\ IF (st = "running") = wanted /\ matches(name, patterns)
                THEN \E ok \in BOOLEAN :
                        /\ calls' = calls \o << Call("state", name, st, TRUE),
                                                Call(op, name, None, ok) >>
                        /\ console' = Append(console,
                              Msg(IF ok THEN okMsg ELSE failMsg, name, None))
                ELSE /\ calls' = Append(calls, Call("state", name, st, TRUE))
                     /\ UNCHANGED console
    /\ UNCHANGED << cnx, domains, result >>
    /\ UNCHANGED << inputs, deleteLocals, matchVars >>

start_dom == StateLoop("start_dom", FALSE, "create", "started", "Failed to start")

start_done ==
    /\ pc = "start_dom"
    /\ LoopDone("teardown")

start == start_list \/ start_dom \/ start_done

\* stop, line 139
stop_list ==
    /\ pc = "stop"
    /\ ListAll("stop_dom")

stop_dom ==
    IF opts.force
    THEN StateLoop("stop_dom", TRUE, "destroy", "Powered off", "Failed to shut down")
    ELSE StateLoop("stop_dom", TRUE, "shutdown", "Triggered shutdown",
                   "Failed to shut down")

stop_done ==
    /\ pc = "stop_dom"
    /\ LoopDone("teardown")

stop == stop_list \/ stop_dom \/ stop_done

\* do_synctime line 267 and addresses line 309: cnx.listAllDomains()
RunningList(here, next) ==
    /\ pc = here
    /\ \/ /\ calls' = Append(calls, Call("listAllDomains", << >>, hv, TRUE))
          /\ domains' = << >>
          /\ i' = 1
          /\ pc' = next
          /\ UNCHANGED raised
       \/ /\ Raise(Append(calls, Call("listAllDomains", << >>, None, FALSE)))
          /\ UNCHANGED << domains, i >>
    /\ UNCHANGED << cnx, result, console >>
    /\ UNCHANGED << inputs, deleteLocals, matchVars >>

\* do_synctime line 267 and addresses line 309: one element of the
\* comprehension; the state of a domain is read only when its name matches
RunningFilter(here, next) ==
    /\ pc = here
    /\ IF i > Len(hv)
       THEN /\ i' = 1
            /\ pc' = next
            /\ UNCHANGED << domains, calls, raised >>
       ELSE LET name == hv[i] IN
            IF ~matches(name, patterns)
            THEN /\ i' = i + 1
                 /\ UNCHANGED << pc, domains, calls, raised >>
            ELSE \/ /\ Raise(Append(calls, Call("state", name, None, FALSE)))
                    /\ UNCHANGED << i, domains >>
                 \/ \E st \in DomainStates :
                       /\ calls' = Append(calls, Call("state", name, st, TRUE))
                       /\ domains' = IF st = "running" THEN Append(domains, name)
                                     ELSE domains
                       /\ i' = i + 1
                       /\ UNCHANGED << pc, raised >>
    /\ UNCHANGED << cnx, result, console >>
    /\ UNCHANGED << inputs, deleteLocals, matchVars >>

synctime_list == RunningList("synctime", "synctime_filter")

synctime_filter == RunningFilter("synctime_filter", "synctime_dom")

\* do_synctime, lines 270-281: one iteration; the time is announced, then set
synctime_dom ==
    /\ pc = "synctime_dom"
    /\ i <= Len(domains)
    /\ LET name == domains[i] IN
       \/ /\ calls' = Append(calls, Call("setTime", name, None, TRUE))
          /\ console' = Append(console, Msg("time set to", name, None))
       \/ /\ calls' = Append(calls, Call("setTime", name, None, FALSE))
          /\ console' = console \o << Msg("time set to", name, None),
                                      Msg("Failed to set time", name, None) >>
    /\ i' = i + 1
    /\ UNCHANGED << pc, cnx, domains, result, raised >>
    /\ UNCHANGED << inputs, deleteLocals, matchVars >>

synctime_done ==
    /\ pc = "synctime_dom"
    /\ LoopDone("teardown")

do_synctime == synctime_list \/ synctime_filter \/ synctime_dom \/ synctime_done

addresses_list == RunningList("addresses", "addresses_filter")

addresses_filter == RunningFilter("addresses_filter", "addresses_dom")

\* the three sources of interfaceAddresses, in the order they are asked
AddressSources == << "lease", "agent", "arp" >>

\* an interface of a reply of interfaceAddresses: its name, its hardware
\* address and the "addr" of each of its addresses
Iface(name, hwaddr, addrs) == [name |-> name, hwaddr |-> hwaddr, addrs |-> addrs]

\* the replies interfaceAddresses may give: a dict from interface name to
\* interface, as the sequence of its items in the order the dict yields them
InterfaceReplies ==
    { << >>,
      << Iface("vnet0", "m1", << "ip1" >>), Iface("vnet1", "m2", << "ip2" >>) >>,
      << Iface("lo", "m0", << "ip0" >>), Iface("eth0", "m1", << "ip2" >>) >>,
      << Iface("eth0", "m1", << "ip1" >>), Iface("eth1", "m1", << "ip2" >>) >> }

\* the dict with no key
EmptyDict == [key \in { } |-> key]

\* addresses, lines 310-311: convert_data; the comprehension writes one key
\* per item in turn, so a later item with the same hwaddr replaces an earlier
RECURSIVE convert_data(_)
convert_data(data) ==
    IF data = << >> THEN EmptyDict
    ELSE LET item == data[Len(data)]
             before == convert_data(SubSeq(data, 1, Len(data) - 1))
         IN  IF item.name = "lo" THEN before
             ELSE (item.hwaddr :> [names |-> << item.name >>, addrs |-> item.addrs])
                      @@ before

\* the elements of a list
Elements(list) == { list[n] : n \in 1..Len(list) }

\* list(set(...)): the elements of the set once each, in some order
RECURSIVE ListOfSet(_)
ListOfSet(S) ==
    IF S = { } THEN << >>
    ELSE LET x == CHOOSE x \in S : TRUE
         IN  << x >> \o ListOfSet(S \ { x })

\* merge_dicts, line 541: two lists under the same key
MergeLists(list1, list2) == ListOfSet(Elements(list1 \o list2))

\* merge_dicts, lines 542-543: two dicts under the same key; here the dicts
\* of one hwaddr, whose keys are names and addrs, both lists
MergeEntries(entry1, entry2) ==
    [names |-> MergeLists(entry1.names, entry2.names),
     addrs |-> MergeLists(entry1.addrs, entry2.addrs)]

\* merge_dicts, lines 534-546, on two dicts keyed by hwaddr
merge_dicts(dict1, dict2) ==
    [key \in DOMAIN dict1 \cup DOMAIN dict2 |->
        IF key \in DOMAIN dict1 /\ key \in DOMAIN dict2
        THEN MergeEntries(dict1[key], dict2[key])
        ELSE IF key \in DOMAIN dict2 THEN dict2[key]
        ELSE dict1[key]]

\* addresses, lines 314-325: one iteration; the three queries are not guarded
addresses_dom ==
    /\ pc = "addresses_dom"
    /\ i <= Len(domains)
    /\ LET name == domains[i]
           asked(replies, last) ==
               [j \in 1..Len(replies) |->
                   Call("interfaceAddresses", name,
                        [source |-> AddressSources[j], reply |-> replies[j]],
                        j < Len(replies) \/ last)]
       IN  \/ \E leases, agent, arp \in InterfaceReplies :
                 LET data == merge_dicts(merge_dicts(convert_data(leases),
                                                     convert_data(agent)),
                                         convert_data(arp))
                 IN  /\ calls' = calls \o asked(<< leases, agent, arp >>, TRUE)
                     /\ result' = Append(result, << name, data >>)
                     /\ i' = i + 1
                     /\ UNCHANGED << pc, raised >>
           \/ \E n \in 1..Len(AddressSources) :
                 \E replies \in [1..n -> InterfaceReplies] :
                    /\ replies[n] = << >>
                    /\ Raise(calls \o asked(replies, FALSE))
                    /\ UNCHANGED << i, result >>
    /\ UNCHANGED << cnx, domains, console >>
    /\ UNCHANGED << inputs, deleteLocals, matchVars >>

\* addresses, lines 327-347: the addresses are printed
addresses_print ==
    /\ pc = "addresses_dom"
    /\ i > Len(domains)
    /\ console' = Append(console, Msg(opts.format, << >>, result))
    /\ pc' = "teardown"
    /\ UNCHANGED << cnx, domains, i, result, calls, raised >>
    /\ UNCHANGED << inputs, deleteLocals, matchVars >>

addresses ==
    addresses_list \/ addresses_filter \/ addresses_dom \/ addresses_print

(***************************************************************************)
(* snapshot list, create, delete, revert                                   *)
(***************************************************************************)
n1 == << "n", "1" >>
n2 == << "n", "2" >>

\* the snapshot names dom.listAllSnapshots() may report
SnapshotLists == { << >>, << n1 >>, << n1, n2 >> }

\* snapshot_list, line 378
snapshot_list_list ==
    /\ pc = "snapshot_list"
    /\ ListAll("snapshot_list_dom")

\* snapshot_list, lines 378-400: one iteration; neither the enumeration nor
\* the descriptor reads are guarded
snapshot_list_dom ==
    /\ pc = "snapshot_list_dom"
    /\ i <= Len(domains)
    /\ LET name == domains[i]
           read(snaps, n, last) ==
               [j \in 1..n |-> Call("getXMLDesc", name, snaps[j], j < n \/ last)]
       IN  IF ~matches(name, patterns)
           THEN /\ i' = i + 1
                /\ UNCHANGED << pc, result, calls, raised >>
           ELSE \/ /\ Raise(Append(calls, Call("listAllSnapshots", name, None, FALSE)))
                   /\ UNCHANGED << i, result >>
                \/ \E snaps \in SnapshotLists :
                      LET listed == Append(calls,
                                      Call("listAllSnapshots", name, snaps, TRUE))
                      IN  \/ /\ calls' = listed \o read(snaps, Len(snaps), TRUE)
                             /\ result' = result \o
                                   [j \in 1..Len(snaps) |-> << name, snaps[j] >>]
                             /\ i' = i + 1
                             /\ UNCHANGED << pc, raised >>
                          \/ \E n \in 1..Len(snaps) :
                                /\ Raise(listed \o read(snaps, n, FALSE))
                                /\ result' = result \o
                                      [j \in 1..(n - 1) |-> << name, snaps[j] >>]
                                /\ UNCHANGED i
    /\ UNCHANGED << cnx, domains, console >>
    /\ UNCHANGED << inputs, deleteLocals, matchVars >>

\* snapshot_list, lines 402-420: the rows are printed
snapshot_list_print ==
    /\ pc = "snapshot_list_dom"
    /\ i > Len(domains)
    /\ console' = Append(console, Msg(opts.format, << >>, result))
    /\ pc' = "teardown"
    /\ UNCHANGED << cnx, domains, i, result, calls, raised >>
    /\ UNCHANGED << inputs, deleteLocals, matchVars >>

snapshot_list == snapshot_list_list \/ snapshot_list_dom \/ snapshot_list_print

\* snapshot_create, line 439
snapshot_create_list ==
    /\ pc = "snapshot_create"
    /\ ListAll("snapshot_create_dom")

\* snapshot_create, lines 439-449: one iteration
snapshot_create_dom ==
    /\ pc = "snapshot_create_dom"
    /\ i <= Len(domains)
    /\ LET name == domains[i] IN
       IF ~matches(name, patterns)
       THEN UNCHANGED << calls, console >>
       ELSE \E ok \in BOOLEAN :
               /\ calls' = Append(calls, Call("snapshotCreateXML", name, opts.name, ok))
               /\ console' = Append(console,
                     Msg(IF ok THEN "Created snapshot" ELSE "Failed to create snapshot",
                         name, None))
    /\ i' = i + 1
    /\ UNCHANGED << pc, cnx, domains, result, raised >>
    /\ UNCHANGED << inputs, deleteLocals, matchVars >>

snapshot_create_done ==
    /\ pc = "snapshot_create_dom"
    /\ LoopDone("teardown")

snapshot_create ==
    snapshot_create_list \/ snapshot_create_dom \/ snapshot_create_done

\* snapshot_delete, line 466
snapshot_delete_list ==
    /\ pc = "snapshot_delete"
    /\ ListAll("snapshot_delete_dom")

\* snapshot_delete, lines 466-485: one iteration; the whole of it is guarded,
\* so a failed delete skips the snapshots that follow on this domain
snapshot_delete_dom ==
    /\ pc = "snapshot_delete_dom"
    /\ i <= Len(domains)
    /\ LET name == domains[i]
           failed == Msg("Failed to delete snapshot", name, None)
       IN  IF ~matches(name, patterns)
           THEN UNCHANGED << calls, console >>
           ELSE \/ /\ calls' = Append(calls, Call("listAllSnapshots", name, None, FALSE))
                   /\ console' = Append(console, failed)
                \/ \E snaps \in SnapshotLists :
                      LET listed == Append(calls,
                                      Call("listAllSnapshots", name, snaps, TRUE))
                          snapshots == SelectSeq(snaps,
                                         LAMBDA sn : matches(sn, << opts.name >>))
                          deleted(n, last) ==
                              [j \in 1..n |-> Call("snapshot.delete", name,
                                                   snapshots[j], j < n \/ last)]
                          printed(n) ==
                              [j \in 1..n |-> Msg("Deleted snapshot", name, snapshots[j])]
                      IN  IF snapshots = << >>
                          THEN /\ calls' = listed
                               /\ console' = Append(console,
                                     Msg("No snapshot to delete", name, None))
                          ELSE \/ /\ calls' = listed \o deleted(Len(snapshots), TRUE)
                                  /\ console' = console \o printed(Len(snapshots))
                               \/ \E n \in 1..Len(snapshots) :
                                     /\ calls' = listed \o deleted(n, FALSE)
                                     /\ console' = (console \o printed(n - 1))
                                                       \o << failed >>
    /\ i' = i + 1
    /\ UNCHANGED << pc, cnx, domains, result, raised >>
    /\ UNCHANGED << inputs, deleteLocals, matchVars >>

snapshot_delete_done ==
    /\ pc = "snapshot_delete_dom"
    /\ LoopDone("teardown")

snapshot_delete ==
    snapshot_delete_list \/ snapshot_delete_dom \/ snapshot_delete_done

\* snapshot_revert, line 502
snapshot_revert_list ==
    /\ pc = "snapshot_revert"
    /\ ListAll("snapshot_revert_dom")

\* snapshot_revert, lines 502-522: one iteration
snapshot_revert_dom ==
    /\ pc = "snapshot_revert_dom"
    /\ i <= Len(domains)
    /\ LET name == domains[i]
           failed == Msg("Failed to revert to snapshot", name, None)
       IN  IF ~matches(name, patterns)
           THEN UNCHANGED << calls, console >>
           ELSE \/ /\ calls' = Append(calls, Call("listAllSnapshots", name, None, FALSE))
                   /\ console' = Append(console, failed)
                \/ \E snaps \in SnapshotLists :
                      LET listed == Append(calls,
                                      Call("listAllSnapshots", name, snaps, TRUE))
                          snapshots == SelectSeq(snaps, LAMBDA sn : sn = opts.name)
                      IN  IF Len(snapshots) = 1
                          THEN \E ok \in BOOLEAN :
                                  /\ calls' = Append(listed,
                                        Call("revertToSnapshot", name, snapshots[1], ok))
                                  /\ console' = Append(console,
                                        IF ok THEN Msg("Reverted to snapshot", name, None)
                                        ELSE failed)
                          ELSE /\ calls' = listed
                               /\ console' = Append(console,
                                     Msg("No snapshot to revert to", name, None))
    /\ i' = i + 1
    /\ UNCHANGED << pc, cnx, domains, result, raised >>
    /\ UNCHANGED << inputs, deleteLocals, matchVars >>

\* snapshot_revert, line 524: the time is synchronized after the loop
snapshot_revert_done ==
    /\ pc = "snapshot_revert_dom"
    /\ LoopDone("synctime")

snapshot_revert ==
    snapshot_revert_list \/ snapshot_revert_dom \/ snapshot_revert_done

delete ==
    \/ delete_list
    \/ delete_dom
    \/ delete_xml
    \/ delete_disk
    \/ delete_undefine
    \/ delete_volume

Next ==
    \/ cli
    \/ vms_list
    \/ start
    \/ stop
    \/ delete
    \/ do_synctime
    \/ addresses
    \/ snapshot_list
    \/ snapshot_create
    \/ snapshot_delete
    \/ snapshot_revert
    \/ connect_libvirt_exit

Spec == Init /\ [][Next]_vars


(***************************************************************************)
(* Properties.                                                             *)
(***************************************************************************)
\* the positions in `calls` of the calls of an operation on a domain
CallsOf(op, dom) ==
    { j \in 1..Len(calls) : calls[j].op = op /\ calls[j].dom = dom }

LookupOps ==
    { "storagePoolLookupByName", "storageVolLookupByName", "storageVolLookupByPath" }

\* the positions of the lookups that resolved a volume for a domain
ResolvedAt(dom) ==
    { j \in 1..Len(calls) :
        /\ calls[j].op \in { "storageVolLookupByName", "storageVolLookupByPath" }
        /\ calls[j].dom = dom
        /\ calls[j].ok }

\* the volume entries given to the delete calls issued for a domain, in order
DeleteArgs(dom) ==
    LET ds == SelectSeq(calls, LAMBDA c : c.op = "delete" /\ c.dom = dom)
    IN  [j \in 1..Len(ds) |-> ds[j].arg]

\* C1: in delete, a domain whose undefine call failed gets no volume-delete
\* call, whatever disks it has
C1_NoDeleteAfterFailedUndefine ==
    \A d \in DomainNames :
        (\E j \in CallsOf("undefineFlags", d) : ~calls[j].ok)
            => CallsOf("delete", d) = { }

\* a delete run has ended after the undefine of a domain with a resolved
\* volume failed
C1_Witness ==
    /\ cmd = "delete" /\ pc = "exit"
    /\ \E d \in DomainNames :
          /\ \E j \in CallsOf("undefineFlags", d) : ~calls[j].ok
          /\ ResolvedAt(d) # { }

\* C2: the connection opened for the invocation is closed once, after the
\* last libvirt call, on every way out of the command
C2_ClosedOnceAtExit ==
    /\ \A j \in 1..Len(calls) : calls[j].op = "close" => j = Len(calls)
    /\ (pc = "exit" /\ \E j \in 1..Len(calls) : calls[j].op = "open" /\ calls[j].ok)
           => (calls[Len(calls)].op = "close" /\ cnx = "closed")

\* an invocation has ended on an uncaught error of a call made after the
\* connection was opened
C2_Witness ==
    /\ pc = "exit" /\ raised /\ cnx = "closed"
    /\ Len(calls) >= 3
    /\ ~calls[Len(calls) - 1].ok
    /\ calls[Len(calls)].op = "close"

\* C3: in delete, a failed step on one matched domain never keeps another
\* matched domain from its undefine attempt
C3_FailureNeverAbortsBatch ==
    (cmd = "delete" /\ pc = "exit")
        => \A d, e \in DomainNames :
              ( /\ d # e
                /\ \E j \in 1..Len(calls) :
                      /\ calls[j].dom = d /\ ~calls[j].ok
                      /\ calls[j].op \in LookupOps \cup
                            { "destroy", "XMLDesc", "undefineFlags", "delete" }
                /\ \E j \in 1..Len(domains) : domains[j] = e )
                  => CallsOf("undefineFlags", e) # { }

\* C7: in delete, once a domain is undefined every volume of its deletion
\* set gets a delete call, whether or not an earlier delete failed
C7_EveryVolumeDeleteAttempted ==
    ( /\ cmd = "delete" /\ pc = "delete_dom" /\ i > 1
      /\ \E j \in CallsOf("undefineFlags", domains[i - 1]) : calls[j].ok )
        => DeleteArgs(domains[i - 1]) = volumes_to_delete

\* a domain with two volumes in its deletion set is done, and the delete of
\* the first volume failed
C7_Witness ==
    /\ cmd = "delete" /\ pc = "delete_dom" /\ i > 1
    /\ Len(volumes_to_delete) = 2
    /\ \E j \in CallsOf("delete", domains[i - 1]) :
          /\ ~calls[j].ok
          /\ \E h \in CallsOf("delete", domains[i - 1]) : h > j

\* the descriptor read for a domain (empty when none was read)
DescriptorOf(dom) ==
    IF \E j \in CallsOf("XMLDesc", dom) : calls[j].ok
    THEN calls[CHOOSE j \in CallsOf("XMLDesc", dom) : calls[j].ok].arg
    ELSE << >>

\* a source element with no, or with several, identifying attributes
Ambiguous(d) ==
    /\ d.has_source
    /\ Cardinality({ a \in DOMAIN d.source :
                       a \in { "file", "dir", "name", "dev", "volume" } }) # 1

\* C8: in delete, a disk whose source has zero or several identifying
\* attributes gets no pool or volume lookup and no entry in the deletion
\* set, with or without a pool attribute
C8_AmbiguousDiskSkipped ==
    /\ \A j \in 1..Len(calls) :
          calls[j].op \in LookupOps
              => ~Ambiguous(DescriptorOf(calls[j].dom)[calls[j].arg.disk])
    /\ pc \in { "delete_disk", "delete_undefine", "delete_volume" }
          => Len(volumes_to_delete) = Cardinality(ResolvedAt(domains[i]))

\* the disk loop has passed a disk with two identifying attributes and a pool
C8_Witness ==
    /\ pc = "delete_undefine"
    /\ \E n \in 1..Len(disks) :
          /\ Ambiguous(disks[n])
          /\ "pool" \in DOMAIN disks[n].source
          /\ Cardinality(DOMAIN disks[n].source) = 3

\* C9: in delete, every entry of the deletion set has a target device name
C9_DeletionSetTargetsDefined ==
    \A n \in 1..Len(volumes_to_delete) : volumes_to_delete[n].target # None

\* C10, as in the specification: the forced stop of a domain comes after
\* its descriptor was read and its disks resolved, before its undefine, once
C10_StopAfterResolution ==
    cmd = "delete" => \A d \in DomainNames : \A j \in CallsOf("destroy", d) :
        /\ \E h \in CallsOf("XMLDesc", d) : h < j
        /\ \A h \in CallsOf("undefineFlags", d) : j < h
        /\ CallsOf("destroy", d) = { j }

\* C10, amended: the forced stop of a domain found running comes before its
\* descriptor is read and its disks resolved, before its undefine, once
C10_StopBeforeResolution ==
    cmd = "delete" => \A d \in DomainNames : \A j \in CallsOf("destroy", d) :
        /\ j > 1 /\ calls[j - 1] = Call("state", d, "running", TRUE)
        /\ \A h \in 1..Len(calls) :
              (calls[h].dom = d /\ calls[h].op \in LookupOps \cup { "XMLDesc", "undefineFlags" })
                  => j < h
        /\ CallsOf("destroy", d) = { j }

\* a running domain was stopped, its disk resolved and the domain undefined
C10_Witness ==
    cmd = "delete" /\ \E d \in DomainNames :
        /\ \E j \in CallsOf("destroy", d) : calls[j].ok
        /\ ResolvedAt(d) # { }
        /\ CallsOf("undefineFlags", d) # { }


\* the subcommands other than list and delete
GuardedCommands ==
    { "start", "stop", "synctime", "addresses", "snapshot_list",
      "snapshot_create", "snapshot_delete", "snapshot_revert" }

\* the calls a subcommand makes to act on one domain
DomainOps ==
    { "create", "destroy", "shutdown", "setTime", "interfaceAddresses",
      "listAllSnapshots", "getXMLDesc", "snapshotCreateXML", "snapshot.delete",
      "revertToSnapshot" }

\* C4: in start, stop, synctime, addresses and the snapshot subcommands, a
\* call that fails on one domain is caught and reported with the domain's
\* name, and the error never leaves the loop over the domains
C4_DomainFailureCaught ==
    cmd \in GuardedCommands
        => \A j \in 1..Len(calls) :
              (calls[j].op \in DomainOps /\ ~calls[j].ok)
                  => /\ ~raised
                     /\ \E n \in 1..Len(console) : console[n].dom = calls[j].dom

\* the names of the rows of the list printed, in the order printed
ListedNames ==
    LET out == SelectSeq(console, LAMBDA m : m.msg \in { "json", "table" })
    IN  IF out = << >> THEN << >>
        ELSE [n \in 1..Len(out[1].about) |-> out[1].about[n][1]]

\* C5: list prints exactly the domains the patterns select, by name
\* ascending, as a table and as JSON
C5_ListSelectedSortedByName ==
    (cmd = "list" /\ pc \in { "teardown", "exit" } /\ ~raised)
        => /\ { ListedNames[n] : n \in 1..Len(ListedNames) }
                  = { hv[n] : n \in { h \in 1..Len(hv) : matches(hv[h], patterns) } }
           /\ Len(ListedNames) = Len(Selected(hv, patterns))
           /\ \A a, b \in 1..Len(ListedNames) :
                 a < b => StrLess(ListedNames[a], ListedNames[b])

\* the pattern, a literal with an optional ^ before and $ after, occurs
\* somewhere in the name
Occurs(p, name) ==
    LET atStart == p # << >> /\ Head(p) = "^"
        q == IF atStart THEN Tail(p) ELSE p
        atEnd == q # << >> /\ q[Len(q)] = "$"
        lit == IF atEnd THEN SubSeq(q, 1, Len(q) - 1) ELSE q
    IN  \E s \in 0..(Len(name) - Len(lit)) :
           /\ SubSeq(name, s + 1, s + Len(lit)) = lit
           /\ atStart => s = 0
           /\ atEnd => s + Len(lit) = Len(name)

\* C6: matches is true exactly when there is no pattern or some pattern
\* occurs somewhere within the name, in whatever order the patterns come
C6_MatchesAnyPatternAnywhere ==
    /\ Len(m_out) >= 1
          => m_out[1] = ( \/ m_patterns = << >>
                          \/ \E j \in 1..Len(m_patterns) : Occurs(m_patterns[j], m_name) )
    /\ Len(m_out) = 2 => m_out[2] = m_out[1]

\* matches was true of two patterns of which only the second occurs, inside
\* a longer name, and again with the patterns rearranged
C6_Witness ==
    /\ m_out = << TRUE, TRUE >>
    /\ Len(m_patterns) = 2
    /\ ~Occurs(m_patterns[1], m_name)
    /\ Occurs(m_patterns[2], m_name)
    /\ Len(m_patterns[2]) = 1 /\ Len(m_name) = 2
    /\ m_patterns[2][1] = m_name[2]


\* the replies recorded for a domain by the addresses command, in the order
\* leases, agent, arp
RepliesOf(dom) ==
    LET cs == SelectSeq(calls, LAMBDA c : c.op = "interfaceAddresses" /\ c.dom = dom)
    IN  [j \in 1..Len(cs) |-> cs[j].arg.reply]

\* the interfaces other than the loopback that the replies report with a
\* given hardware address
ReportedWith(replies, mac) ==
    UNION { { replies[j][n] : n \in { h \in 1..Len(replies[j]) :
                                        /\ replies[j][h].hwaddr = mac
                                        /\ replies[j][h].name # "lo" } } :
            j \in 1..Len(replies) }

\* C11: in addresses, the entry of each hardware address reported on a
\* non-loopback interface holds every interface name and every address that
\* any of the three sources reported for it
C11_MergedEntryHoldsUnion ==
    cmd = "addresses"
        => \A r \in 1..Len(result) :
              LET replies == RepliesOf(result[r][1])
                  data == result[r][2]
              IN  \A mac \in { "m0", "m1", "m2" } :
                     ReportedWith(replies, mac) # { }
                         => /\ mac \in DOMAIN data
                            /\ Elements(data[mac].names)
                                  = { f.name : f \in ReportedWith(replies, mac) }
                            /\ Elements(data[mac].addrs)
                                  = UNION { Elements(f.addrs) :
                                            f \in ReportedWith(replies, mac) }


\* some pattern of the command line occurs in the name
MatchedByPattern(name) ==
    \E j \in 1..Len(patterns) : Occurs(patterns[j], name)

\* C12: in delete with at least one pattern, a domain that no pattern
\* matches gets no forced stop and no undefine, and every volume delete is
\* for a volume looked up for a disk of a matched domain, after that
\* domain's undefine succeeded
C12_DeleteTouchesMatchedOnly ==
    (cmd = "delete" /\ patterns # << >>)
        => \A j \in 1..Len(calls) :
              /\ calls[j].op \in { "destroy", "undefineFlags" }
                    => MatchedByPattern(calls[j].dom)
              /\ calls[j].op = "delete"
                    => /\ MatchedByPattern(calls[j].dom)
                       /\ \E u \in 1..(j - 1) :
                             /\ calls[u] = Call("undefineFlags", calls[j].dom, None, TRUE)
                             /\ \E h \in 1..(u - 1) :
                                   /\ h \in ResolvedAt(calls[j].dom)
                                   /\ calls[h].arg.disk
                                         \in 1..Len(DescriptorOf(calls[j].dom))
                                   /\ calls[j].arg.volume.pool = calls[h].arg.pool
                                   /\ calls[j].arg.volume.key = calls[h].arg.source

\* a delete run with a pattern has ended: the hypervisor holds a domain that
\* no pattern matches, and a volume of the matched domain was deleted
C12_Witness ==
    /\ cmd = "delete" /\ pc = "exit" /\ patterns # << >>
    /\ \E n \in 1..Len(hv) : ~MatchedByPattern(hv[n])
    /\ \E j \in 1..Len(calls) :
          calls[j].op = "delete" /\ calls[j].ok /\ MatchedByPattern(calls[j].dom)

====
